---- MODULE Spec2Model ----
(***************************************************************************)
(* OnlyBest.py: a Streamlit script comparing two products by the value     *)
(* p / price, p drawn from the Beta posterior of the product's reviews.    *)
(*                                                                         *)
(* Streamlit executes the script top to bottom on every interaction, in a  *)
(* fresh namespace.  One execution is modelled as                          *)
(*   start --ReadWidgets--> ready --RunComparison | NoClick--> shown       *)
(* and StartRerun leads from the finished page back to start.              *)
(*                                                                         *)
(* Numbers.  Prices are whole euros.  A Beta sample is k/4 and is held as  *)
(* its numerator k; on such values the float64 quotients p / price compare *)
(* as the fractions do.  A float64 in [0, 2) is held exactly, in units of  *)
(* 2^-56, as two limbs: value = (hi * 2^28 + lo) * 2^-56, with a sign.     *)
(* Division and subtraction round to 53 significant bits, ties to even,    *)
(* as IEEE 754 does.                                                       *)
(***************************************************************************)
EXTENDS Integers, Sequences, FiniteSets, TLC

VARIABLES
    pc,       \* "start" | "ready" | "shown": where the script execution is
    ns,       \* the script's namespace: variable name -> value
    page,     \* the elements the execution has put on the page, in order
    last      \* history, recorded under SpecHistory only: what the latest run of
              \* the handler ended in ("none" | "error" | "result")

vars == <<pc, ns, page, last>>

(* ------------------------------ bounds -------------------------------- *)

\* Prices range over 1 .. MaxPrice euros.
MaxPrice == 2

\* Review counts range over 0 .. MaxReviews; totals over 1 .. MaxReviews.
MaxReviews == 1

(* ------------------------------ domains ------------------------------- *)

\* Line 78: the number of Monte Carlo samples per product.  The source draws
\* 100_000; the model draws 5, the fewest for which count / N and the two
\* subtractions of line 94 round the way they do at 100_000 (4/5 = 80_000/100_000).
N == 5

\* The values a Beta sample takes, in quarters: 1/4 and 2/4.
SampleValues == {1, 2}

Samples == [1..N -> SampleValues]

Prices == 1..MaxPrice

StarCounts == 0..MaxReviews

Totals == 1..MaxReviews

(* --------------------------- float64 values --------------------------- *)

Limb == 2^28

Float(sgn, hi, lo) == [sgn |-> sgn, hi |-> hi, lo |-> lo]

Zero == Float(1, 0, 0)

One == Float(1, Limb, 0)

\* Spacing of the float64 values around a magnitude with high limb hi, in units of 2^-56.
Ulp(hi) ==
    IF hi >= 2^28 THEN 16
    ELSE IF hi >= 2^27 THEN 8
    ELSE IF hi >= 2^26 THEN 4
    ELSE IF hi >= 2^25 THEN 2
    ELSE 1

\* The magnitude (hi * 2^28 + lo + r/n) * 2^-56 rounded to float64, ties to even.
Round(sgn, hi, lo, r, n) ==
    LET q     == Ulp(hi)
        m     == lo % q
        down  == lo - m
        twice == 2 * (m * n + r)
        up    == \/ twice > q * n
                 \/ twice = q * n /\ (down \div q) % 2 = 1
        lo2   == IF up THEN down + q ELSE down
    IN  IF lo2 = Limb THEN Float(sgn, hi + 1, 0)
        ELSE IF hi = 0 /\ lo2 = 0 THEN Zero
        ELSE Float(sgn, hi, lo2)

\* c / n in float64, for integers 0 <= c <= n, n * 2^28 < 2^31.
FlDivide(c, n) ==
    LET q1 == (c * Limb) \div n
        r1 == (c * Limb) % n
        q0 == (r1 * Limb) \div n
        r0 == (r1 * Limb) % n
    IN  Round(1, q1, q0, r0, n)

MagLess(x, y) == x.hi < y.hi \/ (x.hi = y.hi /\ x.lo < y.lo)

\* x > y on float64 values.
FlGreater(x, y) ==
    IF x.sgn # y.sgn THEN x.sgn > y.sgn
    ELSE IF x.sgn = 1 THEN MagLess(y, x)
    ELSE MagLess(x, y)

\* |x| + |y|, exact.
AddMag(x, y) ==
    IF x.lo + y.lo >= Limb
    THEN <<x.hi + y.hi + 1, x.lo + y.lo - Limb>>
    ELSE <<x.hi + y.hi, x.lo + y.lo>>

\* |x| - |y| for |x| >= |y|, exact.
SubMag(x, y) ==
    IF x.lo < y.lo
    THEN <<x.hi - y.hi - 1, x.lo + Limb - y.lo>>
    ELSE <<x.hi - y.hi, x.lo - y.lo>>

\* x - y in float64: the exact difference, rounded.
FlSubtract(x, y) ==
    IF x.sgn # y.sgn
    THEN LET s == AddMag(x, y) IN Round(x.sgn, s[1], s[2], 0, 1)
    ELSE IF MagLess(x, y)
    THEN LET d == SubMag(y, x) IN Round(0 - x.sgn, d[1], d[2], 0, 1)
    ELSE LET d == SubMag(x, y) IN Round(x.sgn, d[1], d[2], 0, 1)

(* ------------------------- the computation ---------------------------- *)

\* Line 64: successes = five + four.
Successes(five, four) == five + four

\* Line 67 with >= for >: a product whose reviews are all 4 or 5 stars is rejected.
RejectedOrEqual(s1, t1, s2, t2) == s1 >= t1 \/ s2 >= t2

\* Line 67 without its second disjunct: product 2 is never checked.
RejectedFirstOnly(s1, t1, s2, t2) == s1 > t1

\* Line 67: the validation that stops the run.
Rejected(s1, t1, s2, t2) == s1 > t1 \/ s2 > t2

\* Line 71: failures = total - successes.
Failures(total, successes) == total - successes

\* Lines 74-75: the posterior's parameters.
Alpha(successes) == 1 + successes

Beta(failures) == 1 + failures

\* Lines 88-89 with * for /: value = p * price.
ValueTimesPrice(p, price) == [num |-> [i \in 1..N |-> p[i] * price], den |-> 1]

\* Lines 88-89: value = p / price, the array p over the scalar price; entry i
\* is the fraction p[i] / price.
Value(p, price) == [num |-> p, den |-> price]

\* v[i] > w[i] on two value arrays (the prices are positive).
ValueGreater(v, w, i) == v.num[i] * w.den > w.num[i] * v.den

\* The number of true entries of the boolean array v > w.
Count(v, w) == Cardinality({i \in 1..N : ValueGreater(v, w, i)})

\* count / N in float64, for every count.
Mean == [c \in 0..N |-> FlDivide(c, N)]

\* Lines 92-93: np.mean(v > w), the count over the length, in float64.
MeanGreater(v, w) == Mean[Count(v, w)]

\* Line 94 without its second subtraction: prob_tie = 1 - prob1_better.
ProbTieForgetful(prob1, prob2) == FlSubtract(One, prob1)

\* Line 94: prob_tie = 1 - prob1_better - prob2_better.
ProbTie(prob1, prob2) == FlSubtract(FlSubtract(One, prob1), prob2)

\* Line 93 as the complement of line 92: prob2_better = 1 - prob1_better.
CompareComplement(price1, p1, price2, p2) ==
    LET value1 == Value(p1, price1)
        value2 == Value(p2, price2)
        prob1_better == MeanGreater(value1, value2)
        prob2_better == FlSubtract(One, prob1_better)
    IN  [value1 |-> value1, value2 |-> value2,
         prob1_better |-> prob1_better,
         prob2_better |-> prob2_better,
         prob_tie |-> ProbTie(prob1_better, prob2_better)]

\* Lines 88-94: the values and the three probabilities.
Compare(price1, p1, price2, p2) ==
    LET value1 == Value(p1, price1)
        value2 == Value(p2, price2)
        prob1_better == MeanGreater(value1, value2)
        prob2_better == MeanGreater(value2, value1)
    IN  [value1 |-> value1, value2 |-> value2,
         prob1_better |-> prob1_better,
         prob2_better |-> prob2_better,
         prob_tie |-> ProbTie(prob1_better, prob2_better)]

\* Line 157 with >= for >: a draw recommends product 1.
RecommendationOrEqual(prob1, prob2) ==
    IF ~FlGreater(prob2, prob1) THEN "Recommendation: Product 1"
    ELSE IF FlGreater(prob2, prob1) THEN "Recommendation: Product 2"
    ELSE "Indifferent"

\* Lines 157-164: the verdict.
Recommendation(prob1, prob2) ==
    IF FlGreater(prob1, prob2) THEN "Recommendation: Product 1"
    ELSE IF FlGreater(prob2, prob1) THEN "Recommendation: Product 2"
    ELSE "Indifferent"

(* ----------------------------- the script ----------------------------- *)

Inputs == {"price1", "five1", "four1", "total1", "price2", "five2", "four2", "total2"}

NoVariables == [x \in {} |-> 0]

Init ==
    /\ pc = "start"
    /\ ns = NoVariables
    /\ page = <<>>
    /\ last = "none"

\* Lines 46-60: the script reads the eight number_input widgets.
ReadWidgets ==
    /\ pc = "start"
    /\ \E p1 \in Prices, f1 \in StarCounts, g1 \in StarCounts, t1 \in Totals,
          p2 \in Prices, f2 \in StarCounts, g2 \in StarCounts, t2 \in Totals :
          ns' = [price1 |-> p1, five1 |-> f1, four1 |-> g1, total1 |-> t1,
                 price2 |-> p2, five2 |-> f2, four2 |-> g2, total2 |-> t2] @@ ns
    /\ pc' = "ready"
    /\ UNCHANGED <<page, last>>

\* Lines 63-69 with the validation moved below the sampling of lines 83-84.
RunRejectedLate ==
    LET successes1 == Successes(ns.five1, ns.four1)
        successes2 == Successes(ns.five2, ns.four2)
    IN  /\ Rejected(successes1, ns.total1, successes2, ns.total2)
        /\ \E p1 \in Samples, p2 \in Samples :
              ns' = [successes1 |-> successes1, successes2 |-> successes2,
                     p1 |-> p1, p2 |-> p2] @@ ns
        /\ page' = <<"error">>

\* Lines 63-69: the button was clicked and the validation fails: st.error, st.stop.
RunRejected ==
    LET successes1 == Successes(ns.five1, ns.four1)
        successes2 == Successes(ns.five2, ns.four2)
    IN  /\ Rejected(successes1, ns.total1, successes2, ns.total2)
        /\ ns' = [successes1 |-> successes1, successes2 |-> successes2] @@ ns
        /\ page' = <<"error">>

\* Lines 63-164: the button was clicked and the validation passes.
RunSimulation ==
    LET successes1 == Successes(ns.five1, ns.four1)
        successes2 == Successes(ns.five2, ns.four2)
        failures1  == Failures(ns.total1, successes1)
        failures2  == Failures(ns.total2, successes2)
    IN  /\ ~Rejected(successes1, ns.total1, successes2, ns.total2)
        /\ \E p1 \in Samples, p2 \in Samples :
              \E result \in {Compare(ns.price1, p1, ns.price2, p2)} :
                  /\ ns' = [successes1 |-> successes1, successes2 |-> successes2,
                            failures1 |-> failures1, failures2 |-> failures2,
                            a1 |-> Alpha(successes1), b1 |-> Beta(failures1),
                            a2 |-> Alpha(successes2), b2 |-> Beta(failures2),
                            p1 |-> p1, p2 |-> p2] @@ result @@ ns
                  /\ page' = <<"success", "metrics", "table", "charts",
                               Recommendation(result.prob1_better, result.prob2_better)>>

\* Line 63: the handler of the Run Comparison button.
RunComparison ==
    /\ pc = "ready"
    /\ RunRejected \/ RunSimulation
    /\ pc' = "shown"
    /\ UNCHANGED last

\* The handler, with what it ended in recorded in the history variable.
RunComparisonRecorded ==
    /\ pc = "ready"
    /\ RunRejected \/ RunSimulation
    /\ pc' = "shown"
    /\ last' = IF page' = <<"error">> THEN "error" ELSE "result"

\* Line 63: the button was not clicked; the script goes on to the footer.
NoClick ==
    /\ pc = "ready"
    /\ pc' = "shown"
    /\ UNCHANGED <<ns, page, last>>

\* A rerun that keeps the namespace of the execution before it.
StartRerunKeeping ==
    /\ pc = "shown"
    /\ pc' = "start"
    /\ page' = <<>>
    /\ UNCHANGED <<ns, last>>

\* An interaction makes Streamlit execute the script again, from the top, in a
\* fresh namespace and on an empty page.
StartRerun ==
    /\ pc = "shown"
    /\ pc' = "start"
    /\ ns' = NoVariables
    /\ page' = <<>>
    /\ UNCHANGED last

Next == ReadWidgets \/ RunComparison \/ NoClick \/ StartRerun

Spec == Init /\ [][Next]_vars

\* The same script with the history of the handler's runs recorded.
NextHistory == ReadWidgets \/ RunComparisonRecorded \/ NoClick \/ StartRerun

SpecHistory == Init /\ [][NextHistory]_vars

(* ------------------------------ claims -------------------------------- *)

Elements == {page[i] : i \in DOMAIN page}

Verdicts == {"Recommendation: Product 1", "Recommendation: Product 2", "Indifferent"}

\* What only a run that passed the validation computes and shows.
ResultNames == {"failures1", "failures2", "a1", "b1", "a2", "b2", "p1", "p2",
                "value1", "value2", "prob1_better", "prob2_better", "prob_tie"}

ResultElements == {"success", "metrics", "table", "charts"} \cup Verdicts

\* The handler ran in this execution and stopped at the validation.
Stopped == pc = "shown" /\ "error" \in Elements

\* The handler ran in this execution and completed the simulation.
Completed == pc = "shown" /\ "success" \in Elements

Exceeds(n, k) ==
    IF k = 1 THEN n.five1 + n.four1 > n.total1 ELSE n.five2 + n.four2 > n.total2

\* 1e-9 in units of 2^-56, rounded down to a multiple of 10^6.
Tolerance == 72 * 10^6

\* |x - y| <= tol on float64 values, exactly.
Within(x, y, tol) ==
    LET d == IF x.sgn # y.sgn THEN AddMag(x, y)
             ELSE IF MagLess(x, y) THEN SubMag(y, x) ELSE SubMag(x, y)
    IN  d[1] = 0 /\ d[2] <= tol

\* x + y in float64: the exact sum, rounded.
FlAdd(x, y) ==
    FlSubtract(x, IF y = Zero THEN Zero ELSE Float(0 - y.sgn, y.hi, y.lo))

\* x + y + t - 1 in units of 2^-56, exactly; 2^30 when it is 2^30 or more either way.
SumError(x, y, t) ==
    LET h == x.sgn * x.hi + y.sgn * y.hi + t.sgn * t.hi - Limb
        l == x.sgn * x.lo + y.sgn * y.lo + t.sgn * t.lo
    IN  IF h > 3 \/ h < -3 THEN 2^30 ELSE h * Limb + l

Abs(k) == IF k < 0 THEN 0 - k ELSE k

\* The number of indices whose two values are equal.
TieCount(v, w) == Cardinality({i \in 1..N : v.num[i] * w.den = w.num[i] * v.den})

\* |t - ties / N| <= tol, exactly.
TieWithin(t, ties, tol) ==
    IF t.sgn = -1 THEN ties = 0 /\ t.hi = 0 /\ t.lo <= tol
    ELSE LET l == N * t.lo
             h == N * t.hi + (l \div Limb) - ties * Limb
         IN  /\ h >= -2 /\ h <= 2
             /\ Abs(h * Limb + (l % Limb)) <= N * tol

\* C1: a run of the handler ends in the review-count error exactly when
\* five + four > total for at least one of the two products, and the handler
\* leaves the eight inputs as they were read (no clamping).
C1_ErrorIffCountsExceed ==
    [][(pc = "ready" /\ pc' = "shown" /\ page' # <<>>) =>
          /\ (page' = <<"error">>) <=> (Exceeds(ns, 1) \/ Exceeds(ns, 2))
          /\ ("error" \in {page'[i] : i \in DOMAIN page'}) => page' = <<"error">>
          /\ \A x \in Inputs : ns'[x] = ns[x]
          /\ ns'.successes1 = ns.five1 + ns.four1
          /\ ns'.successes2 = ns.five2 + ns.four2]_vars

\* C1's case: the error is shown for a violation in product 2 alone.
C1_Witness ==
    /\ Stopped
    /\ ~Exceeds(ns, 1)
    /\ Exceeds(ns, 2)

\* C2: a run that reports the validation error has drawn no sample and holds and
\* shows no part of a result; a run that holds or shows any part of a result
\* shows no error and both products pass the validation.
C2_FailFast ==
    /\ "error" \in Elements =>
          /\ page = <<"error">>
          /\ DOMAIN ns \cap ResultNames = {}
    /\ (DOMAIN ns \cap ResultNames # {} \/ Elements \cap ResultElements # {}) =>
          /\ "error" \notin Elements
          /\ ~Exceeds(ns, 1)
          /\ ~Exceeds(ns, 2)

\* C2's case: a run stopped at the validation, product 1 being the invalid one.
C2_Witness ==
    /\ Stopped
    /\ Exceeds(ns, 1)
    /\ DOMAIN ns = Inputs \cup {"successes1", "successes2"}

InUnitInterval(x) == x.sgn = 1 /\ ~MagLess(One, x)

\* C4: after every completed simulation each of prob1_better, prob2_better and
\* prob_tie lies in [0, 1]; in particular prob_tie is not negative.
C4_ProbabilitiesInUnitInterval ==
    Completed =>
        /\ InUnitInterval(ns.prob1_better)
        /\ InUnitInterval(ns.prob2_better)
        /\ InUnitInterval(ns.prob_tie)

\* C5 as stated: after every completed simulation the three probabilities sum
\* to 1 (the float64 sum prob1_better + prob2_better + prob_tie is 1.0) and
\* prob_tie is the fraction of exact ties (the float64 count / N).
C5_ExactSum ==
    Completed =>
        /\ FlAdd(FlAdd(ns.prob1_better, ns.prob2_better), ns.prob_tie) = One
        /\ ns.prob_tie = Mean[TieCount(ns.value1, ns.value2)]

\* C5 as amended: after every completed simulation the three probabilities sum
\* to 1 within 1e-9, and prob_tie is within 1e-9 of the fraction of exact ties.
C5_SumWithinTolerance ==
    Completed =>
        /\ Abs(SumError(ns.prob1_better, ns.prob2_better, ns.prob_tie)) <= Tolerance
        /\ TieWithin(ns.prob_tie, TieCount(ns.value1, ns.value2), Tolerance)

\* C5's case: a completed simulation without a tie whose prob_tie is not zero.
C5_Witness ==
    /\ Completed
    /\ TieCount(ns.value1, ns.value2) = 0
    /\ ns.prob_tie # Zero

\* C6: whenever the posterior's parameters or the samples exist, for both
\* products alpha = 1 + (five + four), beta = 1 + (total - five - four),
\* alpha >= 1, beta >= 1 and alpha + beta = total + 2.
C6_PosteriorWellFormed ==
    DOMAIN ns \cap {"a1", "b1", "a2", "b2", "p1", "p2"} # {} =>
        /\ {"a1", "b1", "a2", "b2"} \subseteq DOMAIN ns
        /\ ns.a1 = 1 + (ns.five1 + ns.four1)
        /\ ns.b1 = 1 + (ns.total1 - ns.five1 - ns.four1)
        /\ ns.a2 = 1 + (ns.five2 + ns.four2)
        /\ ns.b2 = 1 + (ns.total2 - ns.five2 - ns.four2)
        /\ ns.a1 >= 1 /\ ns.b1 >= 1 /\ ns.a2 >= 1 /\ ns.b2 >= 1
        /\ ns.a1 + ns.b1 = ns.total1 + 2
        /\ ns.a2 + ns.b2 = ns.total2 + 2

\* C6's case: samples were drawn for a product with no failure (beta = 1) and
\* a product with no success (alpha = 1).
C6_Witness ==
    /\ "p1" \in DOMAIN ns
    /\ "p2" \in DOMAIN ns
    /\ ns.b1 = 1
    /\ ns.a2 = 1

\* C7 as stated: comparing the products in the other order on the same draws
\* (the first array drawn goes to the product compared first) gives
\* prob_b_better equal to this run's prob_a_better, prob_a_better equal to this
\* run's prob_b_better, and the same prob_tie.
C7_SymmetrySameDraws ==
    Completed =>
        LET other == Compare(ns.price2, ns.p1, ns.price1, ns.p2)
        IN  /\ ns.prob1_better = other.prob2_better
            /\ ns.prob2_better = other.prob1_better
            /\ ns.prob_tie = other.prob_tie

\* C7 as amended: comparing the products in the other order, each product
\* keeping its own sample array, gives prob_b_better equal to this run's
\* prob_a_better and prob_a_better equal to this run's prob_b_better, and a
\* prob_tie within 1e-9 of this run's.
C7_SymmetrySwappedSamples ==
    Completed =>
        LET other == Compare(ns.price2, ns.p2, ns.price1, ns.p1)
        IN  /\ ns.prob1_better = other.prob2_better
            /\ ns.prob2_better = other.prob1_better
            /\ Within(ns.prob_tie, other.prob_tie, Tolerance)

\* C7's case: a completed simulation with different samples for the two
\* products, a winner, and a prob_tie that changes with the order.
C7_Witness ==
    /\ Completed
    /\ ns.p1 # ns.p2
    /\ FlGreater(ns.prob1_better, ns.prob2_better)
    /\ Compare(ns.price2, ns.p2, ns.price1, ns.p1).prob_tie # ns.prob_tie

\* prob1_better of the same run with price1 replaced by q.
Prob1At(q) == Compare(q, ns.p1, ns.price2, ns.p2).prob1_better

\* C8 as stated: with the counts, price2 and the samples fixed, every strictly
\* smaller price1 gives a strictly greater prob1_better.
C8_StrictlyIncreases ==
    Completed =>
        \A q \in Prices : q < ns.price1 => FlGreater(Prob1At(q), ns.prob1_better)

\* C8 as amended: with the counts, price2 and the samples fixed, no strictly
\* smaller price1 gives a smaller prob1_better.
C8_NeverDecreases ==
    Completed =>
        \A q \in Prices : q < ns.price1 => ~FlGreater(ns.prob1_better, Prob1At(q))

\* C8's case: a completed simulation whose prob1_better a smaller price1 raises.
C8_Witness ==
    /\ Completed
    /\ \E q \in Prices : q < ns.price1 /\ FlGreater(Prob1At(q), ns.prob1_better)

\* What a run of the handler leaves, from the inputs and the draws alone.
Outcome(in, p1, p2) ==
    LET successes1 == in.five1 + in.four1
        successes2 == in.five2 + in.four2
        counts == [successes1 |-> successes1, successes2 |-> successes2]
    IN  IF successes1 > in.total1 \/ successes2 > in.total2
        THEN counts @@ in
        ELSE [failures1 |-> in.total1 - successes1,
              failures2 |-> in.total2 - successes2,
              a1 |-> 1 + successes1, b1 |-> 1 + in.total1 - successes1,
              a2 |-> 1 + successes2, b2 |-> 1 + in.total2 - successes2,
              p1 |-> p1, p2 |-> p2]
             @@ Compare(in.price1, p1, in.price2, p2) @@ counts @@ in

InputsOf(n) == [x \in Inputs |-> n[x]]

\* C9: whatever the latest run of the handler ended in, an execution starts
\* with an empty namespace and page, the handler is entered with the eight
\* inputs of this execution and nothing else, and what a run of the handler
\* leaves is determined by its inputs and its draws.
C9_IndependentOfHistory ==
    /\ pc = "start" => DOMAIN ns = {} /\ page = <<>>
    /\ pc = "ready" => DOMAIN ns = Inputs /\ page = <<>>
    /\ Stopped => ns = Outcome(InputsOf(ns), <<>>, <<>>)
    /\ Completed => ns = Outcome(InputsOf(ns), ns.p1, ns.p2)

\* C9's case: the handler is about to run after an earlier run that ended in a result.
C9_Witness ==
    /\ pc = "ready"
    /\ last = "result"
    /\ ~Exceeds(ns, 1)
    /\ ~Exceeds(ns, 2)

\* C10: a completed simulation shows exactly one verdict, product 1 iff
\* prob1_better > prob2_better, product 2 iff prob2_better > prob1_better,
\* indifferent iff they are equal; any other page shows no verdict.
C10_VerdictAgrees ==
    /\ Completed =>
          /\ Cardinality({i \in DOMAIN page : page[i] \in Verdicts}) = 1
          /\ "Recommendation: Product 1" \in Elements
                <=> FlGreater(ns.prob1_better, ns.prob2_better)
          /\ "Recommendation: Product 2" \in Elements
                <=> FlGreater(ns.prob2_better, ns.prob1_better)
          /\ "Indifferent" \in Elements <=> ns.prob1_better = ns.prob2_better
    /\ ~Completed => Elements \cap Verdicts = {}

\* C10's case: a completed simulation with equal, non-zero win probabilities.
C10_Witness ==
    /\ Completed
    /\ "Indifferent" \in Elements
    /\ ns.prob1_better # Zero

====
